---- MODULE Spec2Model ----
(***************************************************************************)
(* A model of cli.go: the option binder (Cmd.Init) and the subcommand      *)
(* dispatcher (Cmd.Execute) of gopkg-cli.                                  *)
(*                                                                         *)
(* Strings are sequences of one-character strings, so that ToSnakeCase,    *)
(* strings.ToUpper and the flag package's token syntax are computed on     *)
(* the characters as the code computes them.                               *)
(*                                                                         *)
(* Left out, as nothing read later depends on them: Opt.Description and    *)
(* the desc tag, Cmd.ExecutedAs (set on Execute's copy), and log.Printf.   *)
(* Every leaf field of an options record is a string.                      *)
(***************************************************************************)
EXTENDS Integers, Sequences, FiniteSets, TLC

\* ------------------------------------------------------------------------
\* Characters and strings
\* ------------------------------------------------------------------------

Uppers ==
    <<"A","B","C","D","E","F","G","H","I","J","K","L","M",
      "N","O","P","Q","R","S","T","U","V","W","X","Y","Z">>

Lowers ==
    <<"a","b","c","d","e","f","g","h","i","j","k","l","m",
      "n","o","p","q","r","s","t","u","v","w","x","y","z">>

Digits ==
    <<"0","1","2","3","4","5","6","7","8","9">>

Range(s) ==
    {s[i] : i \in DOMAIN s}

IsUpper(c) ==
    c \in Range(Uppers)

IsLower(c) ==
    c \in Range(Lowers)

IsDigit(c) ==
    c \in Range(Digits)

\* strings.ToLower on one (ASCII) character
ToLowerCh(c) ==
    IF IsUpper(c) THEN Lowers[CHOOSE i \in DOMAIN Uppers : Uppers[i] = c] ELSE c

\* strings.ToUpper on one (ASCII) character
ToUpperCh(c) ==
    IF IsLower(c) THEN Uppers[CHOOSE i \in DOMAIN Lowers : Lowers[i] = c] ELSE c

ToLower(s) ==
    [i \in DOMAIN s |-> ToLowerCh(s[i])]

ToUpper(s) ==
    [i \in DOMAIN s |-> ToUpperCh(s[i])]

\* the end of the run [a-z]+ that starts at position i of s
RECURSIVE LowerRunEnd(_, _)
LowerRunEnd(s, i) ==
    IF i + 1 <= Len(s) /\ IsLower(s[i + 1]) THEN LowerRunEnd(s, i + 1) ELSE i

\* matchFirstCap.ReplaceAllString(s, "${1}-${2}") from position i on:
\* "(.)([A-Z][a-z]+)", leftmost match first, matches do not overlap
RECURSIVE ReplaceFirstCap(_, _)
ReplaceFirstCap(s, i) ==
    IF i > Len(s) THEN <<>>
    ELSE IF /\ i + 2 <= Len(s)
            /\ s[i] # "\n"
            /\ IsUpper(s[i + 1])
            /\ IsLower(s[i + 2])
         THEN LET e == LowerRunEnd(s, i + 2)
              IN  <<s[i], "-">> \o SubSeq(s, i + 1, e) \o ReplaceFirstCap(s, e + 1)
         ELSE <<s[i]>> \o ReplaceFirstCap(s, i + 1)

\* matchAllCap.ReplaceAllString(s, "${1}-${2}") from position i on:
\* "([a-z0-9])([A-Z])"
RECURSIVE ReplaceAllCap(_, _)
ReplaceAllCap(s, i) ==
    IF i > Len(s) THEN <<>>
    ELSE IF /\ i + 1 <= Len(s)
            /\ (IsLower(s[i]) \/ IsDigit(s[i]))
            /\ IsUpper(s[i + 1])
         THEN <<s[i], "-", s[i + 1]>> \o ReplaceAllCap(s, i + 2)
         ELSE <<s[i]>> \o ReplaceAllCap(s, i + 1)

\* ToSnakeCase without the second replacement (line 20)
ToSnakeCase_FirstCapOnly(str) ==
    ToLower(ReplaceFirstCap(str, 1))

ToSnakeCase(str) ==
    ToLower(ReplaceAllCap(ReplaceFirstCap(str, 1), 1))

\* ------------------------------------------------------------------------
\* String literals of the modelled program and of its inputs
\* ------------------------------------------------------------------------

sApp == <<"a","p","p">>
sServe == <<"s","e","r","v","e">>
sHttp == <<"h","t","t","p">>
sGrpc == <<"g","r","p","c">>
sVersion == <<"v","e","r","s","i","o","n">>
sLint == <<"l","i","n","t">>
sPing == <<"p","i","n","g">>
sBogus == <<"b","o","g","u","s">>

\* field identifiers of the options records
sPort == <<"P","o","r","t">>
sMaxRetryCount == <<"M","a","x","R","e","t","r","y","C","o","u","n","t">>
sLimits == <<"L","i","m","i","t","s">>

\* texts of the `required` tag
sTrue == <<"t","r","u","e">>
sYes == <<"y","e","s">>

\* argument tokens
tPort == <<"-","-","p","o","r","t">>
tMaxRetryEq5 == <<"-","m","a","x","-","r","e","t","r","y","-","c","o","u","n","t","=","5">>
tPortEq9090 == <<"-","p","o","r","t","=","9","0","9","0">>
tBogusFlag == <<"-","-","b","o","g","u","s">>
tTerminator == <<"-","-">>
t8080 == <<"8","0","8","0">>

\* environment variable names and values
ePORT == <<"P","O","R","T">>
eMaxRetryHyphen == <<"M","A","X","-","R","E","T","R","Y","-","C","O","U","N","T">>
eMaxRetryUnderscore == <<"M","A","X","_","R","E","T","R","Y","_","C","O","U","N","T">>
vEmpty == <<>>
vEnv == <<"e","n","v">>
vDefault == <<"d","f","l","t">>

\* ------------------------------------------------------------------------
\* optState, Opt and the errors Init and Execute return
\* ------------------------------------------------------------------------

OptStateUntouched == 0
OptStateFlagPassed == 1
OptStateEnvPassed == 2

\* an error value is the format of fmt.Errorf and its arguments; Nil is the
\* nil error, Pending the result of a call that has not returned
Nil ==
    [fmt |-> "<nil>", a |-> <<>>]

Pending ==
    [fmt |-> "<pending>", a |-> <<>>]

ErrNotEnoughArgs(name) ==
    [fmt |-> "%s: not engough arguments", a |-> <<name>>]

ErrNotSubCmd(subCmdName, name) ==
    [fmt |-> "'%s' is not a %s command", a |-> <<subCmdName, name>>]

ErrRequired(name) ==
    [fmt |-> "opt '%s' is required but not passed", a |-> <<name>>]

\* the *strconv.NumError of strconv.ParseBool
ErrParseBool(str) ==
    [fmt |-> "strconv.ParseBool: parsing %q: invalid syntax", a |-> <<str>>]

\* what an action (Cmd.Run) of the embedding program may return
ErrAction ==
    [fmt |-> "action failed", a |-> <<>>]

ActionResults ==
    {Nil, ErrAction}

\* the texts strconv.ParseBool accepts, and their values
ParseBoolTrue ==
    {<<"1">>, <<"t">>, <<"T">>, <<"T","R","U","E">>, <<"t","r","u","e">>, <<"T","r","u","e">>}

ParseBoolFalse ==
    {<<"0">>, <<"f">>, <<"F">>, <<"F","A","L","S","E">>, <<"f","a","l","s","e">>,
     <<"F","a","l","s","e">>}

\* ------------------------------------------------------------------------
\* The command tree and the options records of the embedding program
\* ------------------------------------------------------------------------

\* a field of an options record: identifier, kind, struct tag (a set of
\* <<key, value>>), the fields of a nested struct, and the value the caller's
\* record holds before Execute
StringField(name, tag, dflt) ==
    [Name |-> name, Kind |-> "string", Tag |-> tag, Fields |-> <<>>, Default |-> dflt]

StructField(name, fields) ==
    [Name |-> name, Kind |-> "struct", Tag |-> {}, Fields |-> fields, Default |-> vEmpty]

RequiredTrue ==
    {<<"required", sTrue>>}

RequiredYes ==
    {<<"required", sYes>>}

HttpOpts ==
    << StringField(sPort, RequiredTrue, vEmpty),
       StringField(sMaxRetryCount, {}, vDefault) >>

GrpcOpts ==
    << StringField(sPort, RequiredTrue, vEmpty),
       StructField(sLimits, << StringField(sMaxRetryCount, RequiredTrue, vDefault) >>) >>

LintOpts ==
    << StringField(sPort, RequiredTrue, vEmpty),
       StringField(sMaxRetryCount, RequiredYes, vDefault) >>

PingOpts ==
    << StringField(sPort, {}, vDefault) >>

NilOpts ==
    [isNil |-> TRUE, Type |-> <<>>]

OptsOf(type) ==
    [isNil |-> FALSE, Type |-> type]

\* a Cmd value; SubCmds holds the identities of the child Cmd values, Run is
\* TRUE when the func is set and FALSE when it is nil
CmdValue(name, opts, subCmds, run) ==
    [Name |-> name, Args |-> <<>>, Opts |-> opts, SubCmds |-> subCmds,
     ParsedOpts |-> <<>>, Run |-> run]

Nodes ==
    {"root", "serve", "http", "grpc", "version", "lint", "ping"}

Tree ==
    [n \in Nodes |->
        CASE n = "root"    -> CmdValue(sApp, NilOpts, <<"serve", "version", "lint", "ping">>, TRUE)
          [] n = "serve"   -> CmdValue(sServe, OptsOf(PingOpts), <<"http", "grpc">>, TRUE)
          [] n = "http"    -> CmdValue(sHttp, OptsOf(HttpOpts), <<>>, TRUE)
          [] n = "grpc"    -> CmdValue(sGrpc, OptsOf(GrpcOpts), <<>>, TRUE)
          [] n = "version" -> CmdValue(sVersion, NilOpts, <<>>, TRUE)
          [] n = "lint"    -> CmdValue(sLint, OptsOf(LintOpts), <<>>, TRUE)
          [] n = "ping"    -> CmdValue(sPing, OptsOf(PingOpts), <<>>, FALSE)]

\* ------------------------------------------------------------------------
\* reflected, structUnwrap, reflectStruct
\* ------------------------------------------------------------------------

\* structUnwrap from field number fieldIndex on; r.Type is the sequence of the
\* struct's fields and r.Value the location of the struct in the caller's
\* record (the sequence of field numbers that leads to it)
\* structUnwrap with the leaves of a nested record put after the fields that
\* follow it instead of where the nested field stands
RECURSIVE structUnwrapFrom_NestedLast(_, _)
structUnwrapFrom_NestedLast(r, fieldIndex) ==
    IF fieldIndex > Len(r.Type) THEN <<>>
    ELSE LET item == [Type  |-> r.Type[fieldIndex].Fields,
                      Field |-> r.Type[fieldIndex],
                      Value |-> Append(r.Value, fieldIndex)]
         IN  IF item.Field.Kind = "struct"
             THEN structUnwrapFrom_NestedLast(r, fieldIndex + 1)
                     \o structUnwrapFrom_NestedLast(item, 1)
             ELSE <<item>> \o structUnwrapFrom_NestedLast(r, fieldIndex + 1)

RECURSIVE structUnwrapFrom(_, _)
structUnwrapFrom(r, fieldIndex) ==
    IF fieldIndex > Len(r.Type) THEN <<>>
    ELSE LET item == [Type  |-> r.Type[fieldIndex].Fields,
                      Field |-> r.Type[fieldIndex],
                      Value |-> Append(r.Value, fieldIndex)]
         IN  IF item.Field.Kind = "struct"
             THEN structUnwrapFrom(item, 1) \o structUnwrapFrom(r, fieldIndex + 1)
             ELSE <<item>> \o structUnwrapFrom(r, fieldIndex + 1)

structUnwrap(r) ==
    structUnwrapFrom(r, 1)

reflectStruct(i) ==
    structUnwrap([Type |-> i.Type, Field |-> StringField(<<>>, {}, vEmpty), Value |-> <<>>])

\* Tag.Lookup(key)
TagHas(tag, key) ==
    \E p \in tag : p[1] = key

TagValue(tag, key) ==
    (CHOOSE p \in tag : p[1] = key)[2]

\* the caller's records before Execute: per node, the string at each leaf
InitialRecord(n) ==
    LET refs == IF Tree[n].Opts.isNil THEN <<>> ELSE reflectStruct(Tree[n].Opts)
    IN  [p \in {refs[k].Value : k \in DOMAIN refs} |->
            refs[CHOOSE k \in DOMAIN refs : refs[k].Value = p].Field.Default]

\* ------------------------------------------------------------------------
\* The flag package: FlagSet.parseOne on the arguments left (f.args) and the
\* flags defined (f.formal, one per Opt of parsedOpts)
\* ------------------------------------------------------------------------

\* the position of the first "=" of name after its first character, 0 if none
RECURSIVE EqualsAt(_, _)
EqualsAt(name, i) ==
    IF i > Len(name) THEN 0
    ELSE IF name[i] = "=" THEN i
    ELSE EqualsAt(name, i + 1)

\* the number of the Opt that f.formal holds under name, 0 if none
FormalLookup(opts, name) ==
    IF \E k \in DOMAIN opts : opts[k].Name = name
    THEN CHOOSE k \in DOMAIN opts : opts[k].Name = name
    ELSE 0

sHelp == <<"h","e","l","p">>
sH == <<"h">>

\* the outcome of one parseOne: kind "set" (seen, Value.Set(value) is due on
\* Opt number opt), "stop" (not seen, no error), or an error kind; rest is
\* f.args afterwards
parseOne(fargs, opts) ==
    LET none == [kind |-> "stop", opt |-> 0, value |-> <<>>, rest |-> fargs]
    IN
    IF Len(fargs) = 0 THEN none
    ELSE
    LET s == fargs[1] IN
    IF Len(s) < 2 \/ s[1] # "-" THEN none
    ELSE
    LET numMinuses == IF s[2] = "-" THEN 2 ELSE 1 IN
    IF numMinuses = 2 /\ Len(s) = 2 THEN [none EXCEPT !.rest = Tail(fargs)]
    ELSE
    LET name0 == SubSeq(s, numMinuses + 1, Len(s)) IN
    IF Len(name0) = 0 \/ name0[1] = "-" \/ name0[1] = "="
    THEN [none EXCEPT !.kind = "badSyntax"]
    ELSE
    LET eq       == EqualsAt(name0, 2)
        hasValue == eq # 0
        name     == IF hasValue THEN SubSeq(name0, 1, eq - 1) ELSE name0
        value0   == IF hasValue THEN SubSeq(name0, eq + 1, Len(name0)) ELSE <<>>
        rest0    == Tail(fargs)
        k        == FormalLookup(opts, name)
    IN
    IF k = 0
    THEN IF name = sHelp \/ name = sH
         THEN [none EXCEPT !.kind = "help", !.rest = rest0]
         ELSE [none EXCEPT !.kind = "undefined", !.rest = rest0]
    ELSE IF ~hasValue /\ Len(rest0) > 0
         THEN [kind |-> "set", opt |-> k, value |-> rest0[1], rest |-> Tail(rest0)]
    ELSE IF ~hasValue
         THEN [none EXCEPT !.kind = "needsArg", !.rest = rest0]
    ELSE [kind |-> "set", opt |-> k, value |-> value0, rest |-> rest0]

\* ------------------------------------------------------------------------
\* Inputs
\* ------------------------------------------------------------------------

\* the longest tail of os.Args that follows the subcommand names
MaxRest == 3

RECURSIVE SeqsUpTo(_, _)
SeqsUpTo(S, n) ==
    IF n = 0 THEN {<<>>}
    ELSE LET shorter == SeqsUpTo(S, n - 1)
         IN  shorter \cup {Append(q, x) : q \in {r \in shorter : Len(r) = n - 1}, x \in S}

\* the subcommand names that open os.Args[1:]
Paths ==
    { <<>>, <<sServe>>, <<sServe, sHttp>>, <<sServe, sGrpc>>, <<sServe, sBogus>>,
      <<sHttp>>, <<sVersion>>, <<sLint>>, <<sPing>> }

RestTokens ==
    {tPort, tPortEq9090, tMaxRetryEq5, tBogusFlag, tTerminator, t8080}

ArgVectors ==
    {p \o r : p \in Paths, r \in SeqsUpTo(RestTokens, MaxRest)}

EnvNames ==
    {ePORT, eMaxRetryHyphen, eMaxRetryUnderscore}

\* the process environment: the variables that are set, with their values;
\* PORT may be set to the empty string
Environments ==
    { e \in UNION {[S -> {vEmpty, vEnv}] : S \in SUBSET EnvNames} :
        \A n \in DOMAIN e : e[n] = vEmpty => n = ePORT }

\* ------------------------------------------------------------------------
\* State
\* ------------------------------------------------------------------------

VARIABLES
    osArgs,      \* os.Args[1:]
    environ,     \* the process environment
    cmds,        \* the Cmd values of the tree the embedding program built
    optsRecs,    \* the caller's options records: per node, the string at each leaf
    pc,          \* where Execute is: idle, walk, bind, parse, fallback,
                 \* initReturned, done (returned), exited (os.Exit), panicked
    targetCmd,   \* Execute's targetCmd
    args,        \* Execute's args
    refs,        \* Init: the result of reflectStruct(cmd.Opts)
    fieldIndex,  \* Init: the position of the first loop in refs
    parsedOpts,  \* Init: cmd.ParsedOpts of Init's own copy of the Cmd
    flagArgs,    \* Init: the FlagSet's remaining arguments (flags.Args())
    optIndex,    \* Init: the position of the second loop in parsedOpts
    initErr,     \* what Init returned
    result,      \* what Execute returned
    exitCode,    \* the status os.Exit was called with, -1 if it was not
    ran,         \* the nodes whose Run was invoked, in order
    setLog,      \* the calls of SetFunc, in order: option, value, "flag" or "env"
    runResult,   \* what the invoked Run returned
    added,       \* the calls of AddSubCmd, in order: parent, child
    input,       \* the argument of a function applied on its own
    output       \* its result

vars ==
    <<osArgs, environ, cmds, optsRecs, pc, targetCmd, args, refs, fieldIndex,
      parsedOpts, flagArgs, optIndex, initErr, result, exitCode, ran, setLog,
      runResult, added, input, output>>

\* what Execute and Init never touch
harness ==
    <<added, input, output>>

\* the tree and the records as the embedding program built them, Execute not
\* yet called
Constructed ==
    /\ cmds = Tree
    /\ optsRecs = [n \in Nodes |-> InitialRecord(n)]
    /\ pc = "idle"
    /\ targetCmd = "root"
    /\ args = <<>>
    /\ refs = <<>>
    /\ fieldIndex = 1
    /\ parsedOpts = <<>>
    /\ flagArgs = <<>>
    /\ optIndex = 1
    /\ initErr = Pending
    /\ result = Pending
    /\ exitCode = -1
    /\ ran = <<>>
    /\ setLog = <<>>
    /\ runResult = Pending

Init ==
    /\ osArgs \in ArgVectors
    /\ environ \in Environments
    /\ Constructed
    /\ added = <<>>
    /\ input = <<>>
    /\ output = <<>>

\* ------------------------------------------------------------------------
\* Cmd.SubCmd and Cmd.Execute's tree walk
\* ------------------------------------------------------------------------

NoCmd == "none"

\* Cmd.SubCmd with the comparison of line 147 inverted
SubCmd_Inverted(cmd, subcmdname) ==
    LET subs == cmds[cmd].SubCmds
        hits == {i \in DOMAIN subs : cmds[subs[i]].Name # subcmdname}
    IN  IF hits = {} THEN NoCmd
        ELSE subs[CHOOSE i \in hits : \A j \in hits : i <= j]

\* Cmd.SubCmd: the first child whose Name is subcmdname, NoCmd if there is none
SubCmd(cmd, subcmdname) ==
    LET subs == cmds[cmd].SubCmds
        hits == {i \in DOMAIN subs : cmds[subs[i]].Name = subcmdname}
    IN  IF hits = {} THEN NoCmd
        ELSE subs[CHOOSE i \in hits : \A j \in hits : i <= j]

\* the loop condition of Execute
HasSubCmds(cmd) ==
    Len(cmds[cmd].SubCmds) > 0

\* the error of line 161 naming the receiver of Execute instead of targetCmd
WalkNotEnoughArgs_NamesRoot(cmd) ==
    ErrNotEnoughArgs(cmds["root"].Name)

\* the error of line 161: it names targetCmd
WalkNotEnoughArgs(cmd) ==
    ErrNotEnoughArgs(cmds[cmd].Name)

\* the error of line 166 naming the receiver of Execute instead of targetCmd
WalkNotSubCmd_NamesRoot(subCmdName, cmd) ==
    ErrNotSubCmd(subCmdName, cmds["root"].Name)

\* the error of line 166: it names the token and targetCmd
WalkNotSubCmd(subCmdName, cmd) ==
    ErrNotSubCmd(subCmdName, cmds[cmd].Name)

\* Execute, up to the loop: targetCmd := &cmd, args := os.Args[1:]
ExecuteBegin ==
    /\ pc = "idle"
    /\ targetCmd' = "root"
    /\ args' = osArgs
    /\ pc' = "walk"
    /\ UNCHANGED <<harness, runResult, osArgs, environ, cmds, optsRecs, refs, fieldIndex, parsedOpts,
                   flagArgs, optIndex, initErr, result, exitCode, ran, setLog>>

\* one iteration of Execute's loop
ExecuteWalk ==
    /\ pc = "walk"
    /\ HasSubCmds(targetCmd)
    /\ IF Len(args) < 1
       THEN /\ result' = WalkNotEnoughArgs(targetCmd)
            /\ pc' = "done"
            /\ UNCHANGED <<targetCmd, args>>
       ELSE LET subCmdName == args[1]
                subCmd     == SubCmd(targetCmd, subCmdName)
            IN  IF subCmd = NoCmd
                THEN /\ result' = WalkNotSubCmd(subCmdName, targetCmd)
                     /\ pc' = "done"
                     /\ UNCHANGED <<targetCmd, args>>
                ELSE /\ targetCmd' = subCmd
                     /\ args' = Tail(args)
                     /\ UNCHANGED <<result, pc>>
    /\ UNCHANGED <<harness, runResult, osArgs, environ, cmds, optsRecs, refs, fieldIndex, parsedOpts,
                   flagArgs, optIndex, initErr, exitCode, ran, setLog>>

\* ------------------------------------------------------------------------
\* Cmd.Init
\* ------------------------------------------------------------------------

\* Init without the nil check of lines 106-108
InitBegin_NoNilCheck ==
    /\ pc = "walk"
    /\ ~HasSubCmds(targetCmd)
    /\ refs' = reflectStruct(cmds[targetCmd].Opts)
    /\ fieldIndex' = 1
    /\ parsedOpts' = cmds[targetCmd].ParsedOpts
    /\ pc' = "bind"
    /\ UNCHANGED <<harness, runResult, osArgs, environ, cmds, optsRecs, targetCmd, args,
                   flagArgs, optIndex, initErr, result, exitCode, ran, setLog>>

\* Init is entered when the loop of Execute ends; a nil Opts returns at once
InitBegin ==
    /\ pc = "walk"
    /\ ~HasSubCmds(targetCmd)
    /\ IF cmds[targetCmd].Opts.isNil
       THEN /\ initErr' = Nil
            /\ pc' = "initReturned"
            /\ UNCHANGED <<refs, fieldIndex, parsedOpts>>
       ELSE /\ refs' = reflectStruct(cmds[targetCmd].Opts)
            /\ fieldIndex' = 1
            /\ parsedOpts' = cmds[targetCmd].ParsedOpts
            /\ pc' = "bind"
            /\ UNCHANGED initErr
    /\ UNCHANGED <<harness, runResult, osArgs, environ, cmds, optsRecs, targetCmd, args, flagArgs,
                   optIndex, result, exitCode, ran, setLog>>

\* the Opt the first loop builds for one reflected leaf, before its tag is read
NewOpt(ref) ==
    [Name     |-> ToSnakeCase(ref.Field.Name),
     Value    |-> <<>>,
     State    |-> OptStateUntouched,
     SetFunc  |-> ref.Value,
     Required |-> FALSE]

\* the first loop with the error of strconv.ParseBool dropped (lines 118-121
\* as `required, _ := strconv.ParseBool(requiredTag)`)
InitBindField_IgnoresParseError ==
    /\ pc = "bind"
    /\ fieldIndex <= Len(refs)
    /\ LET ref == refs[fieldIndex]
           opt == NewOpt(ref)
           tag == ref.Field.Tag
       IN  /\ parsedOpts' = Append(parsedOpts,
                 [opt EXCEPT !.Required =
                     IF TagHas(tag, "required")
                     THEN TagValue(tag, "required") \in ParseBoolTrue
                     ELSE FALSE])
           /\ IF FormalLookup(parsedOpts, opt.Name) # 0
              THEN /\ pc' = "panicked"
                   /\ UNCHANGED fieldIndex
              ELSE /\ fieldIndex' = fieldIndex + 1
                   /\ UNCHANGED pc
           /\ UNCHANGED initErr
    /\ UNCHANGED <<harness, runResult, osArgs, environ, cmds, optsRecs, targetCmd, args,
                   refs, flagArgs, optIndex, result, exitCode, ran, setLog>>

\* one iteration of the first loop: build the Opt, read the required tag,
\* append to cmd.ParsedOpts, flags.Var (which panics on a name defined twice)
InitBindField ==
    /\ pc = "bind"
    /\ fieldIndex <= Len(refs)
    /\ LET ref == refs[fieldIndex]
           opt == NewOpt(ref)
           tag == ref.Field.Tag
       IN  IF TagHas(tag, "required")
              /\ TagValue(tag, "required") \notin (ParseBoolTrue \cup ParseBoolFalse)
           THEN /\ initErr' = ErrParseBool(TagValue(tag, "required"))
                /\ pc' = "initReturned"
                /\ UNCHANGED <<parsedOpts, fieldIndex>>
           ELSE /\ parsedOpts' = Append(parsedOpts,
                      [opt EXCEPT !.Required =
                          IF TagHas(tag, "required")
                          THEN TagValue(tag, "required") \in ParseBoolTrue
                          ELSE FALSE])
                /\ IF FormalLookup(parsedOpts, opt.Name) # 0
                   THEN /\ pc' = "panicked"
                        /\ UNCHANGED fieldIndex
                   ELSE /\ fieldIndex' = fieldIndex + 1
                        /\ UNCHANGED pc
                /\ UNCHANGED initErr
    /\ UNCHANGED <<harness, runResult, osArgs, environ, cmds, optsRecs, targetCmd, args, refs, flagArgs,
                   optIndex, result, exitCode, ran, setLog>>

\* the first loop ends: flags.Parse(args) starts on args
InitBindDone ==
    /\ pc = "bind"
    /\ fieldIndex > Len(refs)
    /\ flagArgs' = args
    /\ pc' = "parse"
    /\ UNCHANGED <<harness, runResult, osArgs, environ, cmds, optsRecs, targetCmd, args, refs, fieldIndex,
                   parsedOpts, optIndex, initErr, result, exitCode, ran, setLog>>

\* Opt.Set without the assignment of line 51
OptSet_KeepsState(opt, flagval) ==
    [opt EXCEPT !.Value = flagval]

\* Opt.Set: what it leaves in the Opt
OptSet(opt, flagval) ==
    [opt EXCEPT !.Value = flagval, !.State = OptStateFlagPassed]

\* SetFunc (reflect.Value.SetString on the bound field) called with val
SetString(recs, cmd, opt, val) ==
    [recs EXCEPT ![cmd][opt.SetFunc] = val]

\* one parseOne of flags.Parse; the FlagSet was made with flag.ExitOnError, so
\* a parse error ends the process: status 0 after -h/-help, else status 2
FlagParseOne ==
    /\ pc = "parse"
    /\ LET r == parseOne(flagArgs, parsedOpts)
       IN  /\ flagArgs' = r.rest
           /\ CASE r.kind = "set" ->
                     /\ optsRecs' = SetString(optsRecs, targetCmd, parsedOpts[r.opt], r.value)
                     /\ parsedOpts' = [parsedOpts EXCEPT ![r.opt] = OptSet(@, r.value)]
                     /\ setLog' = Append(setLog, <<r.opt, r.value, "flag">>)
                     /\ UNCHANGED <<pc, optIndex, exitCode>>
                [] r.kind = "stop" ->
                     /\ pc' = "fallback"
                     /\ optIndex' = 1
                     /\ UNCHANGED <<optsRecs, parsedOpts, setLog, exitCode>>
                [] r.kind = "help" ->
                     /\ pc' = "exited"
                     /\ exitCode' = 0
                     /\ UNCHANGED <<optsRecs, parsedOpts, setLog, optIndex>>
                [] OTHER ->
                     /\ pc' = "exited"
                     /\ exitCode' = 2
                     /\ UNCHANGED <<optsRecs, parsedOpts, setLog, optIndex>>
    /\ UNCHANGED <<harness, runResult, osArgs, environ, cmds, targetCmd, args, refs, fieldIndex, initErr,
                   result, ran>>

\* line 130 without its test of the State
EnvLookupDue_Always(opt) ==
    TRUE

\* os.LookupEnv is tried for every Opt that no flag set
EnvLookupDue(opt) ==
    opt.State # OptStateFlagPassed

\* line 131 without strings.ToUpper
EnvVarName_NoUpper(opt) ==
    opt.Name

\* the name of the environment variable of an Opt
EnvVarName(opt) ==
    ToUpper(opt.Name)

\* line 137 without the test of Required
RequiredMissing_IgnoresRequired(opt) ==
    opt.State = OptStateUntouched

\* line 137 with the test of Required negated
RequiredMissing_Negated(opt) ==
    opt.State = OptStateUntouched /\ ~opt.Required

\* the required check at the end of an iteration of the second loop
RequiredMissing(opt) ==
    opt.State = OptStateUntouched /\ opt.Required

\* one iteration of the second loop: environment fallback, then the
\* required check of the same Opt
InitEnvStep ==
    /\ pc = "fallback"
    /\ optIndex <= Len(parsedOpts)
    /\ LET opt    == parsedOpts[optIndex]
           ok     == EnvLookupDue(opt) /\ EnvVarName(opt) \in DOMAIN environ
           envval == environ[EnvVarName(opt)]
           after  == IF ok
                     THEN [opt EXCEPT !.Value = envval, !.State = OptStateEnvPassed]
                     ELSE opt
       IN  /\ parsedOpts' = [parsedOpts EXCEPT ![optIndex] = after]
           /\ IF ok
              THEN /\ optsRecs' = SetString(optsRecs, targetCmd, opt, envval)
                   /\ setLog' = Append(setLog, <<optIndex, envval, "env">>)
              ELSE UNCHANGED <<optsRecs, setLog>>
           /\ IF RequiredMissing(after)
              THEN /\ initErr' = ErrRequired(opt.Name)
                   /\ pc' = "initReturned"
                   /\ UNCHANGED optIndex
              ELSE /\ optIndex' = optIndex + 1
                   /\ UNCHANGED <<initErr, pc>>
    /\ UNCHANGED <<harness, runResult, osArgs, environ, cmds, targetCmd, args, refs, fieldIndex, flagArgs,
                   result, exitCode, ran>>

\* the second loop ends: Init returns nil
InitReturnNil ==
    /\ pc = "fallback"
    /\ optIndex > Len(parsedOpts)
    /\ initErr' = Nil
    /\ pc' = "initReturned"
    /\ UNCHANGED <<harness, runResult, osArgs, environ, cmds, optsRecs, targetCmd, args, refs, fieldIndex,
                   parsedOpts, flagArgs, optIndex, result, exitCode, ran, setLog>>

\* ------------------------------------------------------------------------
\* Execute after Init
\* ------------------------------------------------------------------------

\* Init's error is returned
ExecuteReturnInitErr ==
    /\ pc = "initReturned"
    /\ initErr # Nil
    /\ result' = initErr
    /\ pc' = "done"
    /\ UNCHANGED <<harness, runResult, osArgs, environ, cmds, optsRecs, targetCmd, args, refs, fieldIndex,
                   parsedOpts, flagArgs, optIndex, initErr, exitCode, ran, setLog>>

\* line 174 with the action's result dropped: Run is called, nil is returned
ExecuteRun_DropsResult ==
    /\ pc = "initReturned"
    /\ initErr = Nil
    /\ cmds[targetCmd].Run
    /\ \E r \in ActionResults :
          /\ ran' = Append(ran, targetCmd)
          /\ runResult' = r
          /\ result' = Nil
          /\ pc' = "done"
    /\ UNCHANGED <<harness, osArgs, environ, cmds, optsRecs, targetCmd, args, refs,
                   fieldIndex, parsedOpts, flagArgs, optIndex, initErr, exitCode, setLog>>

\* return targetCmd.Run(): the action's result is Execute's result
ExecuteRun ==
    /\ pc = "initReturned"
    /\ initErr = Nil
    /\ cmds[targetCmd].Run
    /\ \E r \in ActionResults :
          /\ ran' = Append(ran, targetCmd)
          /\ runResult' = r
          /\ result' = r
          /\ pc' = "done"
    /\ UNCHANGED <<harness, osArgs, environ, cmds, optsRecs, targetCmd, args, refs, fieldIndex,
                   parsedOpts, flagArgs, optIndex, initErr, exitCode, setLog>>

\* calling the nil func Run panics (nil pointer dereference)
ExecuteRunNil ==
    /\ pc = "initReturned"
    /\ initErr = Nil
    /\ ~cmds[targetCmd].Run
    /\ pc' = "panicked"
    /\ UNCHANGED <<harness, runResult, osArgs, environ, cmds, optsRecs, targetCmd, args, refs, fieldIndex,
                   parsedOpts, flagArgs, optIndex, initErr, result, exitCode, ran, setLog>>

Next ==
    \/ ExecuteBegin
    \/ ExecuteWalk
    \/ InitBegin
    \/ InitBindField
    \/ InitBindDone
    \/ FlagParseOne
    \/ InitEnvStep
    \/ InitReturnNil
    \/ ExecuteReturnInitErr
    \/ ExecuteRun
    \/ ExecuteRunNil

Spec ==
    Init /\ [][Next]_vars

\* ------------------------------------------------------------------------
\* Vocabulary of the properties
\* ------------------------------------------------------------------------

Last(q) ==
    q[Len(q)]

\* The flag syntax as the specification describes it: the values that the
\* leading `-name value`, `--name value` and `-name=value` forms of a give to
\* name, in order; the flags end at the first token that is not a flag and
\* at `--`.
RECURSIVE FlagValues(_, _)
FlagValues(a, name) ==
    IF a = <<>> THEN <<>>
    ELSE LET tok    == a[1]
             dashes == IF Len(tok) >= 2 /\ tok[1] = "-"
                       THEN (IF tok[2] = "-" THEN 2 ELSE 1)
                       ELSE 0
         IN  IF dashes = 0 \/ Len(tok) = dashes THEN <<>>
             ELSE LET body == SubSeq(tok, dashes + 1, Len(tok))
                      eq   == EqualsAt(body, 2)
                  IN  IF eq # 0
                      THEN (IF SubSeq(body, 1, eq - 1) = name
                            THEN <<SubSeq(body, eq + 1, Len(body))>>
                            ELSE <<>>) \o FlagValues(Tail(a), name)
                      ELSE IF Len(a) >= 2
                      THEN (IF body = name THEN <<a[2]>> ELSE <<>>)
                           \o FlagValues(Tail(Tail(a)), name)
                      ELSE <<>>

\* the values SetFunc was called with for Opt number k by the flag parser
\* (how = "flag") or by the environment fallback (how = "env"), in order
LogValues(k, how) ==
    LET hits == SelectSeq(setLog, LAMBDA e : e[1] = k /\ e[3] = how)
    IN  [i \in DOMAIN hits |-> hits[i][2]]

\* the string the caller's record holds in the field bound to Opt number k
BoundField(k) ==
    optsRecs[targetCmd][parsedOpts[k].SetFunc]

\* Init has returned
InitReturned ==
    initErr # Pending

\* flags.Parse has returned
ParseCompleted ==
    pc = "fallback" \/ initErr = Nil \/ initErr.fmt = ErrRequired(<<>>).fmt

\* no required tag of the node's options record is malformed
TagsWellFormed(cmd) ==
    LET leaves == IF cmds[cmd].Opts.isNil THEN <<>> ELSE reflectStruct(cmds[cmd].Opts)
    IN  \A i \in DOMAIN leaves :
           TagHas(leaves[i].Field.Tag, "required") =>
              TagValue(leaves[i].Field.Tag, "required") \in (ParseBoolTrue \cup ParseBoolFalse)

\* Opt number k is required and gets a value from no flag of args and from no
\* environment variable
Unsatisfied(k) ==
    /\ parsedOpts[k].Required
    /\ FlagValues(args, parsedOpts[k].Name) = <<>>
    /\ ToUpper(parsedOpts[k].Name) \notin DOMAIN environ

\* The tree walk as the specification describes it, from (node, a): the
\* childless node reached and the arguments left, or the node where it fails
RECURSIVE Route(_, _)
Route(node, a) ==
    LET named == IF a = <<>> THEN {}
                 ELSE {c \in Range(cmds[node].SubCmds) : cmds[c].Name = a[1]}
    IN  IF cmds[node].SubCmds = <<>>
        THEN [kind |-> "target", node |-> node, token |-> <<>>, rest |-> a]
        ELSE IF a = <<>>
        THEN [kind |-> "noArgs", node |-> node, token |-> <<>>, rest |-> a]
        ELSE IF named = {}
        THEN [kind |-> "unknown", node |-> node, token |-> a[1], rest |-> a]
        ELSE Route(CHOOSE c \in named : TRUE, Tail(a))

\* nothing of option resolution has happened and no action was invoked
NothingResolved ==
    /\ parsedOpts = <<>>
    /\ setLog = <<>>
    /\ ran = <<>>
    /\ optsRecs = [n \in Nodes |-> InitialRecord(n)]

\* ------------------------------------------------------------------------
\* Properties
\* ------------------------------------------------------------------------

\* C1 (flag dominance): the flag parser hands each option exactly the flag
\* values the arguments give it; for every option that a flag of the arguments
\* matched and whose environment variable is present, once Init has returned
\* the Value and the bound field are the (last) flag value and the State is
\* FlagPassed; and the environment value is never written after a flag value.
C1_FlagDominance ==
    \A k \in DOMAIN parsedOpts :
       LET opt   == parsedOpts[k]
           given == LogValues(k, "flag")
       IN  /\ ParseCompleted => given = FlagValues(args, opt.Name)
           /\ (InitReturned /\ given # <<>> /\ ToUpper(opt.Name) \in DOMAIN environ) =>
                 /\ opt.Value = Last(given)
                 /\ BoundField(k) = Last(given)
                 /\ opt.State = OptStateFlagPassed
           /\ \A i, j \in DOMAIN setLog :
                 (i < j /\ setLog[i][1] = k /\ setLog[j][1] = k /\ setLog[i][3] = "flag")
                    => setLog[j][3] = "flag"

\* Init has returned for an option with a flag, and with an environment
\* variable that holds another value
C1_Witness ==
    /\ pc = "done"
    /\ initErr = Nil
    /\ \E k \in DOMAIN parsedOpts :
          /\ LogValues(k, "flag") # <<>>
          /\ ToUpper(parsedOpts[k].Name) \in DOMAIN environ
          /\ environ[ToUpper(parsedOpts[k].Name)] # parsedOpts[k].Value

\* C2 as stated, on records whose required tags are all well formed: whenever
\* Init has returned, every required option that got neither a flag nor an
\* environment value is named by Init's error, Execute returns that error and
\* no action was invoked.
C2_EveryMissingOptionNamed ==
    \A k \in DOMAIN parsedOpts :
       (InitReturned /\ TagsWellFormed(targetCmd) /\ Unsatisfied(k)) =>
          /\ initErr = ErrRequired(parsedOpts[k].Name)
          /\ ran = <<>>
          /\ (pc = "done" => result = initErr)

\* C2 as amended: when no required tag is malformed and Init has returned with
\* some required option left without flag and environment value, Init's error
\* names the first such option in field-discovery order, Execute returns that
\* error and no action was invoked.
C2_FirstMissingOptionNamed ==
    LET missing == {k \in DOMAIN parsedOpts : Unsatisfied(k)}
    IN  (InitReturned /\ TagsWellFormed(targetCmd) /\ missing # {}) =>
           /\ initErr = ErrRequired(
                 parsedOpts[CHOOSE k \in missing : \A m \in missing : k <= m].Name)
           /\ ran = <<>>
           /\ (pc = "done" => result = initErr)

\* Execute has returned the error of the first of two unsatisfied options
C2_Witness ==
    /\ pc = "done"
    /\ Cardinality({k \in DOMAIN parsedOpts : Unsatisfied(k)}) = 2
    /\ result = ErrRequired(parsedOpts[1].Name)
    /\ ran = <<>>

\* C3 (parser failure is an error value): os.Exit is never called; a parser
\* failure lets Execute return to its caller.
C3_ParserFailureReturns ==
    pc # "exited" /\ exitCode = -1

\* the environment variable name the interface section gives: the derived
\* name upper-cased, with underscores as separators
UnderscoreEnvName(name) ==
    [i \in DOMAIN name |-> IF name[i] = "-" THEN "_" ELSE ToUpperCh(name[i])]

\* C4 (environment variable naming): once Init has returned nil, an option
\* with a separator in its name that no flag set and whose variable
\* MAX_RETRY_COUNT (upper case, underscores) is present holds that value with
\* State EnvPassed.
C4_UnderscoreEnvName ==
    \A k \in DOMAIN parsedOpts :
       LET opt == parsedOpts[k]
           var == UnderscoreEnvName(opt.Name)
       IN  (/\ initErr = Nil
            /\ "-" \in Range(opt.Name)
            /\ FlagValues(args, opt.Name) = <<>>
            /\ var \in DOMAIN environ) =>
              /\ opt.Value = environ[var]
              /\ BoundField(k) = environ[var]
              /\ opt.State = OptStateEnvPassed

\* C5 (dispatch target): options are resolved and an action is invoked only
\* for the childless node that the walk over os.Args reaches, with the
\* arguments left after the consumed names; no node with children has its
\* action invoked; [serve, http, --port, 8080] runs http's action with
\* port = "8080", FlagPassed.
C5_DispatchTarget ==
    LET r == Route("root", osArgs)
    IN  /\ pc \in {"bind", "parse", "fallback", "initReturned", "exited", "panicked"} =>
              /\ r.kind = "target"
              /\ targetCmd = r.node
              /\ args = r.rest
        /\ (parsedOpts # <<>> \/ setLog # <<>> \/ InitReturned) =>
              /\ r.kind = "target"
              /\ targetCmd = r.node
        /\ \A i \in DOMAIN ran :
              /\ r.kind = "target"
              /\ ran[i] = r.node
              /\ cmds[ran[i]].SubCmds = <<>>
        /\ \A n \in Nodes :
              optsRecs[n] # InitialRecord(n) => (r.kind = "target" /\ n = r.node)
        /\ (pc = "done" /\ osArgs = <<sServe, sHttp, tPort, t8080>>) =>
              /\ ran = <<"http">>
              /\ parsedOpts[1].Name = <<"p","o","r","t">>
              /\ parsedOpts[1].Value = t8080
              /\ parsedOpts[1].State = OptStateFlagPassed
              /\ optsRecs["http"][<<1>>] = t8080

\* Execute has returned for [serve, http, --port, 8080] after http's action
C5_Witness ==
    /\ pc = "done"
    /\ osArgs = <<sServe, sHttp, tPort, t8080>>
    /\ ran = <<"http">>

\* C6 (unrecognized subcommand): when the walk over os.Args meets a token that
\* names no child of the current node, Execute returns the error that names
\* that token and that node, and nothing is resolved, written or invoked.
C6_UnrecognizedSubcommand ==
    LET r == Route("root", osArgs)
    IN  r.kind = "unknown" =>
           /\ pc \in {"idle", "walk", "done"}
           /\ NothingResolved
           /\ (pc = "done" => result = ErrNotSubCmd(r.token, cmds[r.node].Name))

\* Execute has returned the error for a token met below the root
C6_Witness ==
    /\ pc = "done"
    /\ Route("root", osArgs).kind = "unknown"
    /\ Route("root", osArgs).node = "serve"
    /\ result = ErrNotSubCmd(sBogus, sServe)

\* C7 (not enough arguments): when the walk over os.Args reaches a node with
\* children and no argument is left, Execute returns the error that names
\* that node, and nothing is resolved, written or invoked.
C7_NotEnoughArguments ==
    LET r == Route("root", osArgs)
    IN  r.kind = "noArgs" =>
           /\ pc \in {"idle", "walk", "done"}
           /\ NothingResolved
           /\ (pc = "done" => result = ErrNotEnoughArgs(cmds[r.node].Name))

\* Execute has returned the error for [serve]
C7_Witness ==
    /\ pc = "done"
    /\ osArgs = <<sServe>>
    /\ result = ErrNotEnoughArgs(sServe)

\* C8 (undefined action on a reached leaf): when Init has returned nil for a
\* node whose Run is nil, Execute does not panic; once it is over it has
\* returned an error.
C8_UndefinedActionReported ==
    (initErr = Nil /\ ~cmds[targetCmd].Run) =>
       /\ pc # "panicked"
       /\ (pc = "done" => result # Nil)

\* C9 (positional pass-through): when the action has been invoked, the node's
\* Args are the arguments that flag parsing left over.
C9_PositionalPassThrough ==
    \A i \in DOMAIN ran :
       cmds[ran[i]].Args = (IF cmds[ran[i]].Opts.isNil THEN args ELSE flagArgs)

\* C10 (environment fallback): once Init has returned nil, every option that
\* no flag of the arguments set and whose environment variable (the derived
\* name upper-cased) is present has had its setter called with the
\* environment value, holds it as Value and in the bound field, and has State
\* EnvPassed; and Init never returns the missing-required error of such an
\* option.
C10_EnvironmentFallback ==
    \A k \in DOMAIN parsedOpts :
       LET opt == parsedOpts[k]
           var == ToUpper(opt.Name)
       IN  (FlagValues(args, opt.Name) = <<>> /\ var \in DOMAIN environ) =>
              /\ initErr = Nil =>
                    /\ LogValues(k, "env") = <<environ[var]>>
                    /\ LogValues(k, "flag") = <<>>
                    /\ opt.Value = environ[var]
                    /\ BoundField(k) = environ[var]
                    /\ opt.State = OptStateEnvPassed
              /\ initErr # ErrRequired(opt.Name)

\* Init has returned nil for a required option set from a variable that is
\* present and empty
C10_Witness ==
    /\ initErr = Nil
    /\ \E k \in DOMAIN parsedOpts :
          /\ parsedOpts[k].Required
          /\ parsedOpts[k].State = OptStateEnvPassed
          /\ environ[ToUpper(parsedOpts[k].Name)] = vEmpty
          /\ BoundField(k) = vEmpty

\* C11 (resolution, then action, then its result): an action is invoked at
\* most once, for the target, only after Init has returned nil; Execute
\* returns with the invocation, so every flag and environment write precedes
\* it, and Execute's result is the result the action returned. When no
\* action was invoked, a result of Execute is never an action's.
C11_ResolutionThenAction ==
    /\ Len(ran) <= 1
    /\ ran # <<>> =>
          /\ ran = <<targetCmd>>
          /\ initErr = Nil
          /\ pc = "done"
          /\ runResult \in ActionResults
          /\ result = runResult
    /\ ran = <<>> =>
          /\ runResult = Pending
          /\ result \notin ActionResults

\* Execute has returned the error of an action that ran after a flag write
\* and an environment write
C11_Witness ==
    /\ pc = "done"
    /\ ran # <<>>
    /\ runResult = ErrAction
    /\ result = ErrAction
    /\ \E i, j \in DOMAIN setLog : setLog[i][3] = "flag" /\ setLog[j][3] = "env"

\* Opt number k is not required and gets a value from no flag of args and
\* from no environment variable
OptionalAndUnset(k) ==
    /\ ~parsedOpts[k].Required
    /\ FlagValues(args, parsedOpts[k].Name) = <<>>
    /\ ToUpper(parsedOpts[k].Name) \notin DOMAIN environ

\* C12 (optional option left alone): an option that is not required and gets
\* neither a flag nor an environment value stays Untouched with an empty
\* Value, its setter is never called and its field keeps the caller's value;
\* Init never returns its missing-required error, and returns nil when no
\* required option is unsatisfied and no required tag is malformed.
C12_OptionalLeftAlone ==
    \A k \in DOMAIN parsedOpts :
       OptionalAndUnset(k) =>
          /\ parsedOpts[k].State = OptStateUntouched
          /\ parsedOpts[k].Value = <<>>
          /\ \A i \in DOMAIN setLog : setLog[i][1] # k
          /\ BoundField(k) = InitialRecord(targetCmd)[parsedOpts[k].SetFunc]
          /\ initErr # ErrRequired(parsedOpts[k].Name)
          /\ (/\ InitReturned
              /\ TagsWellFormed(targetCmd)
              /\ \A j \in DOMAIN parsedOpts : ~Unsatisfied(j)) => initErr = Nil

\* Init has returned nil with an optional option untouched, its field still
\* holding the caller's non-empty value
C12_Witness ==
    /\ pc = "done"
    /\ initErr = Nil
    /\ \E k \in DOMAIN parsedOpts :
          /\ OptionalAndUnset(k)
          /\ parsedOpts[k].State = OptStateUntouched
          /\ BoundField(k) = vDefault

\* the text of the first malformed required tag among the leaves of the
\* node's options record, in field-discovery order
FirstMalformedTag(cmd) ==
    LET leaves == reflectStruct(cmds[cmd].Opts)
        bad    == {i \in DOMAIN leaves :
                     /\ TagHas(leaves[i].Field.Tag, "required")
                     /\ TagValue(leaves[i].Field.Tag, "required")
                           \notin (ParseBoolTrue \cup ParseBoolFalse)}
    IN  TagValue(leaves[CHOOSE i \in bad : \A j \in bad : i <= j].Field.Tag, "required")

\* C13 (malformed required tag): when a leaf of the target's options record
\* has a required tag that is no boolean text, Init returns the error of
\* strconv.ParseBool during setup: flag parsing and environment fallback are
\* never entered, no setter is called, no field changes, no action is
\* invoked, and Execute returns that error. An option whose field has no
\* required tag is not required.
C13_MalformedRequiredTag ==
    LET r == Route("root", osArgs)
    IN  /\ (r.kind = "target" /\ ~TagsWellFormed(r.node)) =>
              /\ pc \in {"idle", "walk", "bind", "initReturned", "done"}
              /\ flagArgs = <<>>
              /\ exitCode = -1
              /\ setLog = <<>>
              /\ ran = <<>>
              /\ optsRecs = [n \in Nodes |-> InitialRecord(n)]
              /\ \A k \in DOMAIN parsedOpts : parsedOpts[k].State = OptStateUntouched
              /\ InitReturned => initErr = ErrParseBool(FirstMalformedTag(r.node))
              /\ pc = "done" => (InitReturned /\ result = initErr)
        /\ \A k \in DOMAIN parsedOpts :
              ~TagHas(refs[k].Field.Tag, "required") => ~parsedOpts[k].Required

\* Execute has returned the ParseBool error for a record whose second field
\* has the malformed tag, with a flag for the first field in the arguments
\* and its environment variable present
C13_Witness ==
    /\ pc = "done"
    /\ osArgs = <<sLint, tPort, t8080>>
    /\ ePORT \in DOMAIN environ
    /\ result = ErrParseBool(sYes)
    /\ Len(parsedOpts) = 1

\* ------------------------------------------------------------------------
\* Field discovery on its own: reflectStruct over options records of every
\* shape with at most MaxFields fields, then a write through one descriptor
\* ------------------------------------------------------------------------

MaxFields == 4

\* the identifier of the field declared at a position of its record
FieldLetter(i) ==
    <<"A", "B", "C", "D", "E", "F">>[i]

\* the record types with exactly n fields in all, nested ones counted, the
\* first field declared at position idx of a record whose path is named prefix
RECURSIVE RecordTypes(_, _, _)
RecordTypes(n, prefix, idx) ==
    IF n = 0 THEN {<<>>}
    ELSE LET name == Append(prefix, FieldLetter(idx))
             FieldsOfSize(k) ==
                 (IF k = 1 THEN {StringField(name, {}, vDefault)} ELSE {})
                 \cup {StructField(name, inner) : inner \in RecordTypes(k - 1, name, 1)}
         IN  UNION {{<<f>> \o rest : f \in FieldsOfSize(k),
                                     rest \in RecordTypes(n - k, prefix, idx + 1)}
                    : k \in 1..n}

RecordShapes ==
    UNION {RecordTypes(n, <<>>, 1) : n \in 0..MaxFields}

InitUnwrap ==
    /\ osArgs = <<>>
    /\ environ = <<>>
    /\ Constructed
    /\ added = <<>>
    /\ input \in RecordShapes
    /\ output = <<>>

\* reflectStruct(cmd.Opts) on the record of type input; rec is the caller's
\* record, the string at each leaf
ReflectStructCall ==
    /\ pc = "idle"
    /\ LET rs == reflectStruct(OptsOf(input))
       IN  output' = [refs    |-> rs,
                      rec     |-> [n \in {"root"} |->
                                     [p \in {rs[k].Value : k \in DOMAIN rs} |-> vDefault]],
                      written |-> 0]
    /\ pc' = "unwrapped"
    /\ UNCHANGED <<input, added, runResult, osArgs, environ, cmds, optsRecs, targetCmd,
                   args, refs, fieldIndex, parsedOpts, flagArgs, optIndex, initErr,
                   result, exitCode, ran, setLog>>

\* the SetFunc of the Opt built on one descriptor, called with a value
SetFuncCall ==
    /\ pc = "unwrapped"
    /\ \E k \in DOMAIN output.refs :
          output' = [output EXCEPT
                        !.rec = SetString(@, "root", NewOpt(output.refs[k]), vEnv),
                        !.written = k]
    /\ pc' = "written"
    /\ UNCHANGED <<input, added, runResult, osArgs, environ, cmds, optsRecs, targetCmd,
                   args, refs, fieldIndex, parsedOpts, flagArgs, optIndex, initErr,
                   result, exitCode, ran, setLog>>

NextUnwrap ==
    \/ ReflectStructCall
    \/ SetFuncCall

SpecUnwrap ==
    InitUnwrap /\ [][NextUnwrap]_vars

\* the field a path of declaration positions leads to in a record type, a
\* field of kind "none" when the path leaves the type
RECURSIVE FieldAt(_, _)
FieldAt(type, path) ==
    IF path = <<>> \/ path[1] \notin DOMAIN type
    THEN [Name |-> <<>>, Kind |-> "none", Tag |-> {}, Fields |-> <<>>, Default |-> <<>>]
    ELSE IF Len(path) = 1 THEN type[path[1]]
    ELSE IF type[path[1]].Kind = "struct" THEN FieldAt(type[path[1]].Fields, Tail(path))
    ELSE [Name |-> <<>>, Kind |-> "none", Tag |-> {}, Fields |-> <<>>, Default |-> <<>>]

\* the paths of the leaf fields of a record type
LeafPaths(type) ==
    {p \in SeqsUpTo(1..MaxFields, MaxFields) : FieldAt(type, p).Kind = "string"}

\* p stands before q in depth-first declaration order
RECURSIVE DeclaredBefore(_, _)
DeclaredBefore(p, q) ==
    /\ p # <<>>
    /\ q # <<>>
    /\ \/ p[1] < q[1]
       \/ p[1] = q[1] /\ DeclaredBefore(Tail(p), Tail(q))

IsPrefix(p, q) ==
    Len(p) <= Len(q) /\ SubSeq(q, 1, Len(p)) = p

\* C14 (field discovery flattens): for a record with N leaf fields at any
\* depth reflectStruct returns N descriptors, one per leaf and in depth-first
\* declaration order, the leaves of a nested record contiguous, each
\* descriptor holding the field at its place; a write through the setter of
\* a descriptor shows in the caller's record at that leaf and nowhere else.
C14_Flattening ==
    pc \in {"unwrapped", "written"} =>
        LET out    == output.refs
            leaves == LeafPaths(input)
        IN  /\ Len(out) = Cardinality(leaves)
            /\ {out[k].Value : k \in DOMAIN out} = leaves
            /\ \A i, j \in DOMAIN out : i < j => DeclaredBefore(out[i].Value, out[j].Value)
            /\ \A i, j, k \in DOMAIN out : \A p \in SeqsUpTo(1..MaxFields, MaxFields) :
                  (i < j /\ j < k /\ IsPrefix(p, out[i].Value) /\ IsPrefix(p, out[k].Value))
                     => IsPrefix(p, out[j].Value)
            /\ \A k \in DOMAIN out : out[k].Field = FieldAt(input, out[k].Value)
            /\ DOMAIN output.rec["root"] = leaves
            /\ \A p \in leaves :
                  output.rec["root"][p] =
                     IF pc = "written" /\ p = out[output.written].Value
                     THEN vEnv ELSE vDefault

\* a record with a nested record between two leaves has been unwrapped and
\* the leaf inside a record nested twice has been written
C14_Witness ==
    /\ pc = "written"
    /\ Len(output.refs) = 2
    /\ Len(input) = 2
    /\ input[1].Kind = "struct"
    /\ output.refs[output.written].Value = <<1, 1, 1>>
    /\ output.rec["root"][<<1, 1, 1>>] = vEnv

\* ------------------------------------------------------------------------
\* Name derivation on its own: ToSnakeCase over every identifier of at most
\* MaxIdLen characters of a small alphabet, then over its own result
\* ------------------------------------------------------------------------

MaxIdLen == 5

IdAlphabet ==
    {"H", "T", "e", "1"}

sHTTPServer == <<"H","T","T","P","S","e","r","v","e","r">>
sHttpServerDerived == <<"h","t","t","p","-","s","e","r","v","e","r">>
sMaxRetryCountDerived == <<"m","a","x","-","r","e","t","r","y","-","c","o","u","n","t">>

Identifiers ==
    (SeqsUpTo(IdAlphabet, MaxIdLen) \ {<<>>}) \cup {sMaxRetryCount, sHTTPServer}

InitName ==
    /\ osArgs = <<>>
    /\ environ = <<>>
    /\ Constructed
    /\ added = <<>>
    /\ input \in Identifiers
    /\ output = <<>>

\* ToSnakeCase(ref.Field.Name)
ToSnakeCaseCall ==
    /\ pc = "idle"
    /\ output' = [once |-> ToSnakeCase(input), twice |-> <<>>]
    /\ pc' = "derived"
    /\ UNCHANGED <<input, added, runResult, osArgs, environ, cmds, optsRecs, targetCmd,
                   args, refs, fieldIndex, parsedOpts, flagArgs, optIndex, initErr,
                   result, exitCode, ran, setLog>>

\* ToSnakeCase on its own result
ToSnakeCaseAgain ==
    /\ pc = "derived"
    /\ output' = [output EXCEPT !.twice = ToSnakeCase(output.once)]
    /\ pc' = "rederived"
    /\ UNCHANGED <<input, added, runResult, osArgs, environ, cmds, optsRecs, targetCmd,
                   args, refs, fieldIndex, parsedOpts, flagArgs, optIndex, initErr,
                   result, exitCode, ran, setLog>>

NextName ==
    \/ ToSnakeCaseCall
    \/ ToSnakeCaseAgain

SpecName ==
    InitName /\ [][NextName]_vars

\* a separator is due before position p of identifier id: an upper-case
\* letter after a lower-case letter or digit, or the last letter of an
\* acronym run, the one a lower-case letter follows
SeparatorDue(id, p) ==
    /\ p > 1
    /\ IsUpper(id[p])
    /\ \/ IsLower(id[p - 1])
       \/ IsDigit(id[p - 1])
       \/ IsUpper(id[p - 1]) /\ p + 1 <= Len(id) /\ IsLower(id[p + 1])

\* the identifier from position p on, lower-cased, a separator where due
RECURSIVE Separated(_, _)
Separated(id, p) ==
    IF p > Len(id) THEN <<>>
    ELSE (IF SeparatorDue(id, p) THEN <<"-">> ELSE <<>>)
            \o <<ToLowerCh(id[p])>> \o Separated(id, p + 1)

IsNoSeparator(c) ==
    c # "-"

OptStates ==
    {OptStateUntouched, OptStateFlagPassed, OptStateEnvPassed}

\* what one step may do to the State of the Opt at position k
StateStep(k) ==
    LET s == parsedOpts[k].State
        t == parsedOpts'[k].State
    IN  \/ t = s
        \/ s = OptStateUntouched /\ t = OptStateFlagPassed /\ pc = "parse"
        \/ s = OptStateUntouched /\ t = OptStateEnvPassed /\ pc = "fallback"

\* every State is one of the three, agrees with the writes made for the
\* option, and no field has a write of each kind
StatesConsistent ==
    \A k \in DOMAIN parsedOpts :
        /\ parsedOpts[k].State \in OptStates
        /\ parsedOpts[k].State = OptStateFlagPassed <=> LogValues(k, "flag") # <<>>
        /\ parsedOpts[k].State = OptStateEnvPassed <=> LogValues(k, "env") # <<>>
        /\ ~(LogValues(k, "flag") # <<>> /\ LogValues(k, "env") # <<>>)
        /\ Len(LogValues(k, "env")) <= 1

\* C16 (option state only moves forward): every State is Untouched,
\* FlagPassed or EnvPassed; a step leaves a State as it is or takes it from
\* Untouched to FlagPassed during flag parsing or from Untouched to EnvPassed
\* during fallback, an Opt starts Untouched and is never dropped; no field is
\* written both by a flag match and by an environment fallback.
C16_StateOnlyForward ==
    /\ []StatesConsistent
    /\ [][/\ Len(parsedOpts') >= Len(parsedOpts)
          /\ \A k \in DOMAIN parsedOpts : StateStep(k)
          /\ \A k \in DOMAIN parsedOpts' \ DOMAIN parsedOpts :
                parsedOpts'[k].State = OptStateUntouched]_vars

\* one option was set twice by a repeated flag and another by fallback
C16_Witness ==
    /\ pc = "done"
    /\ \E k, m \in DOMAIN parsedOpts :
          /\ Len(LogValues(k, "flag")) = 2
          /\ parsedOpts[k].State = OptStateFlagPassed
          /\ parsedOpts[m].State = OptStateEnvPassed

\* Init has returned a missing-required-option error
ReturnedRequiredError ==
    \E k \in DOMAIN parsedOpts : initErr = ErrRequired(parsedOpts[k].Name)

\* C17 (fallback completes before the required check): whenever Init has
\* returned a missing-required-option error, every option that no flag of
\* the arguments set and whose environment variable is present, those
\* declared after the option the error names included, has been written
\* through its setter and has State EnvPassed.
C17_FallbackBeforeRequiredCheck ==
    ReturnedRequiredError =>
        \A k \in DOMAIN parsedOpts :
            (/\ FlagValues(args, parsedOpts[k].Name) = <<>>
             /\ ToUpper(parsedOpts[k].Name) \in DOMAIN environ) =>
                /\ parsedOpts[k].State = OptStateEnvPassed
                /\ LogValues(k, "env") = <<environ[ToUpper(parsedOpts[k].Name)]>>
                /\ BoundField(k) = environ[ToUpper(parsedOpts[k].Name)]

\* C18 (resolved options are recorded on the node): once Init has returned
\* for a node with an options record, the node's ParsedOpts is the list of
\* Opts that Init built, with their final Value and State: one per leaf
\* field, in field-discovery order, when all the tags are well formed.
C18_ResolvedOptionsRecorded ==
    (InitReturned /\ ~cmds[targetCmd].Opts.isNil) =>
        /\ cmds[targetCmd].ParsedOpts = parsedOpts
        /\ TagsWellFormed(targetCmd) =>
              LET leaves == reflectStruct(cmds[targetCmd].Opts)
              IN  /\ Len(cmds[targetCmd].ParsedOpts) = Len(leaves)
                  /\ \A k \in DOMAIN leaves :
                        cmds[targetCmd].ParsedOpts[k].SetFunc = leaves[k].Value

\* C19 (node without options record): when the target's Opts is nil, Init
\* returns nil without building options, parsing the arguments left or
\* reading the environment: the process is not ended, nothing is written,
\* and Execute invokes the node's action whatever the arguments left are,
\* flag-like tokens that no option set knows included.
C19_NoOptionsRecord ==
    LET r == Route("root", osArgs)
    IN  (r.kind = "target" /\ cmds[r.node].Opts.isNil) =>
            /\ pc \in {"idle", "walk", "initReturned", "done", "panicked"}
            /\ exitCode = -1
            /\ refs = <<>>
            /\ parsedOpts = <<>>
            /\ flagArgs = <<>>
            /\ setLog = <<>>
            /\ optsRecs = [n \in Nodes |-> InitialRecord(n)]
            /\ initErr \in {Pending, Nil}
            /\ pc \in {"initReturned", "done"} => (targetCmd = r.node /\ initErr = Nil)
            /\ (pc = "done" /\ cmds[r.node].Run) =>
                  /\ ran = <<r.node>>
                  /\ result \in ActionResults

\* the action of a node without options record was invoked with a flag-like
\* token left over, the variable PORT being present
C19_Witness ==
    /\ pc = "done"
    /\ osArgs = <<sVersion, tBogusFlag>>
    /\ ePORT \in DOMAIN environ
    /\ ran = <<"version">>
    /\ args = <<tBogusFlag>>

\* ------------------------------------------------------------------------
\* Cmd.AddSubCmd, called by the embedding program before Execute
\* ------------------------------------------------------------------------

MaxAdded == 1

AddParents ==
    {"root", "version"}

AddChildren ==
    {"http", "ping"}

AddArgVectors ==
    { <<sVersion>>, <<sVersion, sHttp>>, <<sVersion, sHttp, tPort, t8080>>,
      <<sHttp, tPort, t8080>>, <<sPing>>, <<sServe, sHttp>>,
      <<sServe, sHttp, tPortEq9090>>, <<sServe, sGrpc, tBogusFlag>> }

AddEnvironments ==
    {e \in Environments : DOMAIN e \subseteq {ePORT} /\ \A n \in DOMAIN e : e[n] = vEnv}

InitAdd ==
    /\ osArgs \in AddArgVectors
    /\ environ \in AddEnvironments
    /\ Constructed
    /\ added = <<>>
    /\ input = <<>>
    /\ output = <<>>

\* parent.AddSubCmd(child): the receiver is a copy of the parent's Cmd value;
\* the append assigns the SubCmds of the copy, which is dropped on return
AddSubCmd ==
    /\ pc = "idle"
    /\ Len(added) < MaxAdded
    /\ \E parent \in AddParents, child \in AddChildren :
          LET cmd == [cmds[parent] EXCEPT !.SubCmds = Append(@, child)]
          IN  /\ Last(cmd.SubCmds) = child
              /\ added' = Append(added, <<parent, child>>)
    /\ UNCHANGED <<input, output, runResult, osArgs, environ, cmds, optsRecs, pc,
                   targetCmd, args, refs, fieldIndex, parsedOpts, flagArgs, optIndex,
                   initErr, result, exitCode, ran, setLog>>

NextAdd ==
    \/ AddSubCmd
    \/ Next

SpecAdd ==
    InitAdd /\ [][NextAdd]_vars

\* C20 (AddSubCmd registers a child): after parent.AddSubCmd(child) the
\* parent's SubCmds holds the child, as its last element after the latest
\* call, parent.SubCmd(child.Name) finds it, and Execute takes the parent for
\* a node with children: it does not invoke the parent's action.
C20_AddSubCmdRegisters ==
    \A i \in DOMAIN added :
        LET parent == added[i][1]
            child  == added[i][2]
        IN  /\ cmds[parent].SubCmds # <<>>
            /\ child \in Range(cmds[parent].SubCmds)
            /\ i = Len(added) => Last(cmds[parent].SubCmds) = child
            /\ SubCmd(parent, cmds[child].Name) # NoCmd
            /\ HasSubCmds(parent)
            /\ parent \notin Range(ran)

====
